---- MODULE Spec2Model ----
(***************************************************************************)
(* PlaneViewer (src/PlaneViewer/src/main.js): the animation loop of the    *)
(* flight entities, the terrain chunk manager, wind and the day/night      *)
(* clock, as a state machine.                                              *)
(*                                                                         *)
(* JavaScript numbers are modelled in fixed point:                         *)
(*   lengths, positions, speeds   1 unit   = PS                            *)
(*   angles                       1 radian = AS                            *)
(*   sines and cosines            1        = TS                            *)
(*   Math.random()                a value r in 0..RS-1 standing for r/RS   *)
(*   factors (baseSpeed, ...)     1        = FS                            *)
(*   timers                       1 tick   = dt = 1/60 s                   *)
(* Math.random() is a generator whose seed the program does not choose:    *)
(* the stream is RandomPool read cyclically from a position that Init      *)
(* picks; every call consumes the next value.                              *)
(***************************************************************************)
EXTENDS Integers, Sequences, FiniteSets, TLC

VARIABLES
    rng,             \* position in the Math.random() stream
    ticks,           \* number of animate() calls so far
    timeOfDay,       \* main.js:33, in 1/ToDS of a day
    nightModeOnly,   \* main.js:35
    windDirection,   \* main.js:42 (AS)
    windStrength,    \* main.js:43 (FS)
    windChangeTimer, \* main.js:44 (ticks)
    movement,        \* main.js:484, the set of movement flags that are true
    viewer,          \* yawObject.position (PS)
    active,          \* TerrainChunkManager.active: chunk key -> mesh handle
    chunkCenter,     \* TerrainChunkManager.centerCx / centerCz (<<>> is null)
    meshes,          \* number of chunk meshes created so far (next handle)
    geometry,        \* TerrainChunkManager.geometry, the PlaneGeometry the tiles share
    updates,         \* number of TerrainChunkManager.update calls so far
    pending,         \* createPlanePlaceholder promises not yet settled
    planesLoaded,    \* main.js:14
    loadingScreen,   \* main.js:15, what has been done to the #loading-screen element
    planes,          \* main.js:635, the population
    sky,             \* what updateDayNightCycle last set on celestialObjects
    tickLog          \* what the last animate() did: thrown, updated, rendered

vars == <<rng, ticks, timeOfDay, nightModeOnly, windDirection, windStrength,
          windChangeTimer, movement, viewer, active, chunkCenter, meshes,
          geometry, updates, pending, planesLoaded, loadingScreen, planes, sky,
          tickLog>>

-----------------------------------------------------------------------------
(* Fixed-point scales *)
PS == 10 * 1000
AS == 100 * 1000
TS == 10 * 1000
RS == 10 * 100
FS == 10 * 100
BS == 10 * 100          \* waypointBlendFactor: 1.0 = BS
ToDS == 60 * 1000       \* timeOfDay: one day = ToDS, DAY_CYCLE_SPEED * dt = 1

PI == 3 * AS + 14159
TWO_PI == 2 * PI
HALF_PI == PI \div 2

Abs(x) == IF x < 0 THEN -x ELSE x
Min(a, b) == IF a < b THEN a ELSE b
Max(a, b) == IF a > b THEN a ELSE b
Sign(x) == IF x < 0 THEN -1 ELSE 1
\* THREE.MathUtils.clamp
Clamp(x, lo, hi) == Max(lo, Min(hi, x))
\* a * b / d rounded toward zero, as a float product truncated to the grid
Div(a, d) == Sign(a) * (Abs(a) \div d)

\* Math.sin on [0, pi/2] (AS) -> TS, Taylor series to x^9
SinQ(x) ==
    LET y  == x \div 10
        y2 == (y * y) \div TS
        t4 == TS - y2 \div 72
        t3 == TS - ((y2 * t4) \div TS) \div 42
        t2 == TS - ((y2 * t3) \div TS) \div 20
        t1 == TS - ((y2 * t2) \div TS) \div 6
    IN (y * t1) \div TS

\* Math.sin (AS -> TS)
Sin(a) ==
    LET m == a % TWO_PI
    IN IF m <= HALF_PI THEN SinQ(m)
       ELSE IF m <= PI THEN SinQ(PI - m)
       ELSE IF m <= PI + HALF_PI THEN -SinQ(m - PI)
       ELSE -SinQ(TWO_PI - m)

\* Math.cos (AS -> TS)
Cos(a) == Sin(a + HALF_PI)

\* Math.atan on [0, 1] (TS -> AS), odd polynomial of degree 9
Atan01(q) ==
    LET q2 == (q * q) \div TS
        s4 == 2084
        s3 == (q2 * s4) \div TS - 8513
        s2 == (q2 * s3) \div TS + 18014
        s1 == (q2 * s2) \div TS - 33030
        s0 == (q2 * s1) \div TS + 99987
    IN (q * s0) \div TS

\* Math.atan2(y, x) (any common scale -> AS), result in (-pi, pi]
Atan2(y, x) ==
    LET ay == Abs(y)
        ax == Abs(x)
        base == IF ax = 0 /\ ay = 0 THEN 0
                ELSE IF ay <= ax THEN Atan01((ay * TS) \div ax)
                ELSE HALF_PI - Atan01((ax * TS) \div ay)
    IN IF x >= 0 THEN Sign(y) * base
       ELSE IF y >= 0 THEN PI - base
       ELSE base - PI

RECURSIVE Newton(_, _)
Newton(n, x) ==
    LET y == (x + n \div x) \div 2
    IN IF y >= x THEN x ELSE Newton(n, y)

\* floor(Math.sqrt(n))
ISqrt(n) == IF n < 2 THEN n ELSE Newton(n, n \div 2 + 1)

-----------------------------------------------------------------------------
(* Program constants (main.js) *)
CHUNK_SIZE == 2000 * PS
CHUNK_RADIUS == 1
GROUND_HEIGHT == 0
MIN_HEIGHT_AGL == 50 * PS
MAX_HEIGHT_AGL == 800 * PS
FLOOR_AVOIDANCE_DIST == 150 * PS
CEILING_AVOIDANCE_DIST == 150 * PS
SAFE_ZONE_MIN == MIN_HEIGHT_AGL + FLOOR_AVOIDANCE_DIST + 50 * PS
SAFE_ZONE_MAX == MAX_HEIGHT_AGL - CEILING_AVOIDANCE_DIST - 50 * PS
WAYPOINT_DISTANCE_MIN == 800 * PS
WAYPOINT_DISTANCE_MAX == 1500 * PS
DESPAWN_BOX_SIZE == CHUNK_SIZE * 3
SPAWN_DISTANCE_MIN == 1200 * PS
SPAWN_DISTANCE_MAX == 1800 * PS
WIND_CHANGE_INTERVAL == 60 * 60       \* 60 s in ticks
TURBULENCE_FREQUENCY == (3 * 60) \div 10 \* 0.3 s in ticks
DEBUG_PLANE_SPEED_MULT == 3
DEBUG_CAMERA_SPEED_MULT == 4

aglToY(agl) == GROUND_HEIGHT + agl
yToAGL(y) == y - GROUND_HEIGHT

-----------------------------------------------------------------------------
(* Math.random() *)
RandomPool ==
    <<125, 500,
      999, 500, 700, 400, 300, 999, 100, 250, 0, 0, 0, 600, 0, 0, 999, 0, 0, 999,
      200, 300, 999, 999, 999, 0, 800, 750, 500, 500, 500, 100, 999, 500, 400, 999,
      500, 450>>
PoolLen == Len(RandomPool)
\* the k-th value after stream position r
Random(r, k) == RandomPool[((r + k) % PoolLen) + 1]
\* a + Math.random() * span
RandRange(a, span, r, k) ==
    a + (span \div RS) * Random(r, k) + ((span % RS) * Random(r, k)) \div RS

-----------------------------------------------------------------------------
(* TerrainChunkManager, main.js:216-268.  A manager is the record           *)
(* [active, center, meshes, geometry]; a mesh is [id, geometry, x, z] (its   *)
(* handle, the handle of its geometry and the position ensureChunk gives    *)
(* it); the geometry is [id, disposed].                                     *)

key(cx, cz) == <<cx, cz>>

\* ensureChunk, main.js:229-238
ensureChunk(tm, cx, cz) ==
    LET k == key(cx, cz)
    IN IF k \in DOMAIN tm.active THEN tm
       ELSE LET mesh == [id |-> tm.meshes + 1, geometry |-> tm.geometry.id,
                         x |-> cx * CHUNK_SIZE, z |-> cz * CHUNK_SIZE]
            IN [tm EXCEPT !.active = [j \in DOMAIN tm.active \cup {k} |->
                                         IF j = k THEN mesh ELSE tm.active[j]],
                          !.meshes = tm.meshes + 1]

\* a faulty loop: dx and dz stop before CHUNK_RADIUS
NeededSeqShort(cx, cz) ==
    LET w == 2 * CHUNK_RADIUS
    IN [i \in 1..(w * w) |->
          key(cx + ((i - 1) % w) - CHUNK_RADIUS,
              cz + ((i - 1) \div w) - CHUNK_RADIUS)]

\* the loop order of update: dz outer, dx inner (main.js:248-249)
NeededSeq(cx, cz) ==
    LET w == 2 * CHUNK_RADIUS + 1
    IN [i \in 1..(w * w) |->
          key(cx + ((i - 1) % w) - CHUNK_RADIUS,
              cz + ((i - 1) \div w) - CHUNK_RADIUS)]

RECURSIVE EnsureAll(_, _, _)
EnsureAll(tm, ks, i) ==
    IF i > Len(ks) THEN tm
    ELSE EnsureAll(ensureChunk(tm, ks[i][1], ks[i][2]), ks, i + 1)

\* a faulty update: every call drops all chunks and creates the square anew
TerrainRebuild(tm, pos) ==
    LET cx == pos.x \div CHUNK_SIZE
        cz == pos.z \div CHUNK_SIZE
    IN EnsureAll([tm EXCEPT !.center = <<cx, cz>>, !.active = <<>>],
                 NeededSeq(cx, cz), 1)

\* a faulty update: the early return compares the x chunk only
TerrainUpdateSameColumn(tm, pos) ==
    LET cx == pos.x \div CHUNK_SIZE
        cz == pos.z \div CHUNK_SIZE
    IN IF tm.center # <<>> /\ tm.center[1] = cx /\ Cardinality(DOMAIN tm.active) > 0
       THEN tm
       ELSE LET ks == NeededSeq(cx, cz)
                needed == {ks[i] : i \in 1..Len(ks)}
                ensured == EnsureAll([tm EXCEPT !.center = <<cx, cz>>], ks, 1)
            IN [ensured EXCEPT !.active =
                   [j \in DOMAIN ensured.active \cap needed |-> ensured.active[j]]]

\* a faulty update: an unloaded tile disposes of its geometry, which is the
\* shared one
TerrainUpdateDisposes(tm, pos) ==
    LET cx == pos.x \div CHUNK_SIZE
        cz == pos.z \div CHUNK_SIZE
    IN IF tm.center = <<cx, cz>> /\ Cardinality(DOMAIN tm.active) > 0 THEN tm
       ELSE LET ks == NeededSeq(cx, cz)
                needed == {ks[i] : i \in 1..Len(ks)}
                ensured == EnsureAll([tm EXCEPT !.center = <<cx, cz>>], ks, 1)
            IN [ensured EXCEPT
                   !.active = [j \in DOMAIN ensured.active \cap needed |-> ensured.active[j]],
                   !.geometry.disposed = @ \/ (DOMAIN ensured.active \ needed # {})]

\* update, main.js:240-267.  An unloaded mesh is removed from the scene and
\* from the map and its own geometry property is set to null (main.js:261);
\* the manager's geometry is not touched.
TerrainUpdate(tm, pos) ==
    LET cx == pos.x \div CHUNK_SIZE
        cz == pos.z \div CHUNK_SIZE
    IN IF tm.center = <<cx, cz>> /\ Cardinality(DOMAIN tm.active) > 0 THEN tm
       ELSE LET ks == NeededSeq(cx, cz)
                needed == {ks[i] : i \in 1..Len(ks)}
                ensured == EnsureAll([tm EXCEPT !.center = <<cx, cz>>], ks, 1)
            IN [ensured EXCEPT !.active =
                   [j \in DOMAIN ensured.active \cap needed |-> ensured.active[j]]]

\* new TerrainChunkManager(scene, groundMat), main.js:217-225
NewTerrain ==
    [active |-> <<>>, center |-> <<>>, meshes |-> 0,
     geometry |-> [id |-> 0, disposed |-> FALSE]]

-----------------------------------------------------------------------------
(* Flight entities.  A plane is a record of the fields animate() reads or   *)
(* writes; a property that is undefined is absent from the record.          *)

\* a property the object has / the object with property f set to v
Has(p, f) == f \in DOMAIN p
With(p, f, v) == [k \in DOMAIN p \cup {f} |-> IF k = f THEN v ELSE p[k]]
Vec(x, y, z) == [x |-> x, y |-> y, z |-> z]

\* len * t / TS for a sine or cosine t and a length of at most 2100 units
ScaleTrig(len, t) == Div(Div(len, 100) * t, TS \div 100)

\* uniform angle Math.random() * Math.PI * 2 (AS)
RandAngle(r, k) == (Random(r, k) * TWO_PI) \div RS

\* a faulty computeSpawnAltitude: any height up to the ceiling
computeSpawnAltitudeAnyHeight(r, k) ==
    aglToY(RandRange(0, MAX_HEIGHT_AGL, r, k))

\* computeSpawnAltitude, main.js:81-84 (one draw)
computeSpawnAltitude(r, k) ==
    aglToY(RandRange(SAFE_ZONE_MIN, SAFE_ZONE_MAX - SAFE_ZONE_MIN, r, k))

\* generateWaypoint, main.js:91-101 (three draws, from the k-th)
generateWaypoint(planePos, r, k) ==
    LET distance == RandRange(WAYPOINT_DISTANCE_MIN,
                              WAYPOINT_DISTANCE_MAX - WAYPOINT_DISTANCE_MIN, r, k)
        angle == RandAngle(r, k + 1)
        altitude == RandRange(SAFE_ZONE_MIN, SAFE_ZONE_MAX - SAFE_ZONE_MIN, r, k + 2)
    IN Vec(planePos.x + ScaleTrig(distance, Cos(angle)),
           aglToY(altitude),
           planePos.z + ScaleTrig(distance, Sin(angle)))

\* plane.speed of updatePlaneProperties, main.js:1075-1081 (PS per frame)
PlaneSpeed(y, baseSpeed) ==
    LET agl == yToAGL(y)
        heightRatio == Div(agl - MIN_HEIGHT_AGL, (MAX_HEIGHT_AGL - MIN_HEIGHT_AGL) \div PS)
        baseSpeedFactor == IF baseSpeed = 0 THEN FS ELSE baseSpeed
    IN Div((PS \div 20 + Div(heightRatio * 15, 100)) * baseSpeedFactor
             * DEBUG_PLANE_SPEED_MULT, FS)

\* updatePlaneProperties, main.js:1075-1098 (the mesh scale is not modelled)
updatePlaneProperties(p) == [p EXCEPT !.speed = PlaneSpeed(p.pos.y, p.baseSpeed)]

\* a faulty spawn position: the waypoint ring instead of the spawn ring
SpawnPositionWaypointRing(spawnCenter, r, k) ==
    LET spawnDistance == RandRange(WAYPOINT_DISTANCE_MIN,
                                   WAYPOINT_DISTANCE_MAX - WAYPOINT_DISTANCE_MIN, r, k)
        spawnAngle == RandAngle(r, k + 1)
    IN Vec(spawnCenter.x + ScaleTrig(spawnDistance, Cos(spawnAngle)),
           computeSpawnAltitude(r, k + 2),
           spawnCenter.z + ScaleTrig(spawnDistance, Sin(spawnAngle)))

\* the spawn position of createPlanePlaceholder and respawnPlane:
\* main.js:999-1006 and 1029-1036 (three draws, from the k-th)
SpawnPosition(spawnCenter, r, k) ==
    LET spawnDistance == RandRange(SPAWN_DISTANCE_MIN,
                                   SPAWN_DISTANCE_MAX - SPAWN_DISTANCE_MIN, r, k)
        spawnAngle == RandAngle(r, k + 1)
    IN Vec(spawnCenter.x + ScaleTrig(spawnDistance, Cos(spawnAngle)),
           computeSpawnAltitude(r, k + 2),
           spawnCenter.z + ScaleTrig(spawnDistance, Sin(spawnAngle)))

\* a faulty spawn speed: the factor 0.5 is missing
SpawnVSpeedFull(maxClimbRate, r, k) ==
    Clamp(Div(Random(r, k) * maxClimbRate, RS), 0, maxClimbRate)

\* the vertical speed given at spawn and respawn: main.js:858-862, 1043-1047
SpawnVSpeed(maxClimbRate, r, k) ==
    Clamp(Div(Div(Random(r, k) * maxClimbRate, RS), 2), 0, maxClimbRate)

\* number of Math.random() calls of createPlanePlaceholder after its await
CreateDraws == 18

\* createPlanePlaceholder after the model has loaded, main.js:851-1015:
\* the plane it pushes.  placeholder: loadPlaneModel substituted the box mesh.
createPlane(center, r, placeholder) ==
    LET baseSpeedFactor == RandRange((FS * 3) \div 4, (FS * 6) \div 10, r, 0)
        climbPerformance == RandRange((FS * 8) \div 10, (FS * 6) \div 10, r, 1)
        baseMaxClimbRate == RandRange((PS * 9) \div 10, (PS * 7) \div 10, r, 2)
        baseMaxDescentRate == RandRange((PS * 4) \div 10, (PS * 5) \div 10, r, 3)
        initialVSpeed == SpawnVSpeed(baseMaxClimbRate, r, 4)
        position == SpawnPosition(center, r, 12)
    IN updatePlaneProperties(
       [ pos |-> position,
         speed |-> 10 * PS,
         baseSpeed |-> baseSpeedFactor,
         climbPerformance |-> climbPerformance,
         maxClimbRate |-> baseMaxClimbRate,
         maxDescentRate |-> baseMaxDescentRate,
         waypoint |-> generateWaypoint(position, r, 15),
         waypointTimer |-> 0,
         waypointInterval |-> RandRange(30 * 60, 40 * 60, r, 5),
         lightTimer |-> (Random(r, 6) * 50 * 60) \div RS,
         vSpeed |-> initialVSpeed,
         heading |-> RandAngle(r, 7),
         pitch |-> 0,
         roll |-> 0,
         targetHeading |-> RandAngle(r, 9),
         turbulenceTimer |-> (Random(r, 11) * 10 * 60) \div RS,
         turbulenceOffset |-> Vec(0, 0, 0),
         \* smoothWaypoint, targetWaypoint, waypointBlendFactor and the three
         \* angular velocities are undefined until animate() first visits
         \* the plane.  The fields below are history, not program state.
         placeholder |-> placeholder,
         centre |-> Vec(center.x, 0, center.z),
         event |-> "spawned",
         seen |-> 0,
         regens |-> 0,
         respawns |-> 0 ])

\* number of Math.random() calls of respawnPlane
RespawnDraws == 11

\* respawnPlane, main.js:1025-1072
respawnPlane(p, center, r) ==
    LET position == SpawnPosition(center, r, 0)
        rotationY == RandAngle(r, 3)
        maxClimbRate == IF p.maxClimbRate = 0 THEN (PS * 12) \div 10 ELSE p.maxClimbRate
    IN updatePlaneProperties(
       [p EXCEPT !.pos = position,
                 !.vSpeed = SpawnVSpeed(maxClimbRate, r, 4),
                 !.lightTimer = (Random(r, 5) * 50 * 60) \div RS,
                 !.waypoint = generateWaypoint(position, r, 6),
                 !.heading = rotationY,
                 !.pitch = 0,
                 !.roll = 0,
                 !.centre = Vec(center.x, 0, center.z),
                 !.event = "respawned",
                 !.respawns = @ + 1])

-----------------------------------------------------------------------------
(* The day/night clock, main.js:1197-1289 and 1313-1319.                    *)

\* (t - offset) * Math.PI * 2 for t and offset in 1/ToDS of a day (AS)
DayAngle(t, offset) == ((t - offset) * 10472) \div 1000

\* Math.max(0, Math.sin((timeOfDay - 0.25) * Math.PI * 2)) (TS): dayPhase,
\* dayFactor and 1 - starOpacity, main.js:1236, 1244, 1249, 1268, 1689
dayPhase(t) == Max(0, Sin(DayAngle(t, ToDS \div 4)))

\* the advance of a tick that leaves the cycle unbounded
advanceClockNoWrap(t, night) == IF night THEN 0 ELSE t + 1

\* main.js:1314-1318: DAY_CYCLE_SPEED * dt is 1/ToDS
advanceClock(t, night) == IF night THEN 0 ELSE (t + 1) % ToDS

\* updateDayNightCycle, main.js:1197-1289: what it sets for timeOfDay t.
\* sunY and moonY in units of celestialDistance / TS; the light intensities
\* and the ambient intensity in 1/1000.
updateDayNightCycle(t) ==
    LET sunAngle == DayAngle(t, ToDS \div 2)
        sunY == Sin(sunAngle)
        moonY == Sin(sunAngle + PI)
        lo == (15 * ToDS) \div 100
        hi == (85 * ToDS) \div 100
    IN [sunY |-> sunY,
        moonY |-> moonY,
        sunVisible |-> (t > lo /\ t < hi) /\ sunY > 0,
        moonVisible |-> (t < lo \/ t > hi) /\ moonY > 0,
        sunLight |-> (dayPhase(t) * 1500) \div TS,
        moonLight |-> ((TS - dayPhase(t)) * 300) \div TS,
        ambient |-> 300 + (dayPhase(t) * 900) \div TS]

\* the sun, the moon and the lights as created, main.js:398-432 and 631:
\* both meshes visible at the origin
NewSky ==
    [sunY |-> 0, moonY |-> 0, sunVisible |-> TRUE, moonVisible |-> TRUE,
     sunLight |-> 1500, moonLight |-> 300, ambient |-> 900]

-----------------------------------------------------------------------------
(* The body of planes.forEach in animate(), main.js:1398-1692, in stages.   *)
(* A stage maps a context [p, r] (the plane and the stream position) to the *)
(* context after it.                                                        *)

Sub(a, b) == Vec(a.x - b.x, a.y - b.y, a.z - b.z)
\* plane[f] || 0
OrZero(p, f) == IF Has(p, f) THEN p[f] ELSE 0

\* d * w / BS^2 for a weight w in 0..BS^2, exact at w = 0 and w = BS^2
Weighted(d, w) ==
    LET a == Abs(d)
        dh == a \div 1000
        dl == a % 1000
        wh == w \div 1000
        wl == w % 1000
    IN Sign(d) * (dh * wh + (dh * wl + dl * wh + (dl * wl) \div 1000) \div 1000)

\* vector.length() < limit for a limit of whole units below 400
ShorterThan(v, limit) ==
    /\ Abs(v.x) < limit /\ Abs(v.y) < limit /\ Abs(v.z) < limit
    /\ LET x == v.x \div 100
           y == v.y \div 100
           z == v.z \div 100
           l == limit \div 100
       IN x * x + y * y + z * z < l * l

\* periodic waypoint change, main.js:1414-1423
StepWaypointTimer(c) ==
    LET p == c.p
        timer == p.waypointTimer + 1
    IN IF timer > p.waypointInterval
       THEN [c EXCEPT !.p.waypointTimer = 0,
                      !.p.waypointInterval = RandRange(30 * 60, 40 * 60, c.r, 0),
                      !.p.waypoint = generateWaypoint(p.pos, c.r, 1),
                      !.r = c.r + 4]
       ELSE [c EXCEPT !.p.waypointTimer = timer]

\* first visit: initialise the waypoint system, main.js:1427-1432
StepSmoothInit(c) ==
    IF ~Has(c.p, "smoothWaypoint")
    THEN [c EXCEPT !.p = With(With(With(c.p, "smoothWaypoint", c.p.waypoint),
                                   "targetWaypoint", c.p.waypoint),
                              "waypointBlendFactor", BS)]
    ELSE c

\* the control point of a new curved path, main.js:1449-1469
ControlPoint(smooth, newWaypoint, r, k) ==
    LET directPath == Sub(newWaypoint, smooth)
        dx == Div(directPath.x, 1000)
        dy == Div(directPath.y, 1000)
        dz == Div(directPath.z, 1000)
        pathDistance == ISqrt(dx * dx + dy * dy + dz * dz)
        flat == ISqrt(dx * dx + dz * dz)
        \* perpendicular.normalize() * pathDistance, in 1/10 unit
        ratio == IF flat = 0 THEN 0 ELSE (pathDistance * TS) \div flat
        perpX == Div((-dz) * ratio, TS)
        perpZ == Div(dx * ratio, TS)
        curveDirection == IF Random(r, k) < RS \div 2 THEN 1 ELSE -1
        curveIntensity == RandRange((FS * 3) \div 10, (FS * 4) \div 10, r, k + 1)
        cx == smooth.x + Div(directPath.x, 2)
                + Div(perpX * curveIntensity * curveDirection, FS) * 1000
        cy == smooth.y + Div(directPath.y, 2)
        cz == smooth.z + Div(directPath.z, 2)
                + Div(perpZ * curveIntensity * curveDirection, FS) * 1000
        controlAltitude == yToAGL(cy)
    IN Vec(cx,
           IF controlAltitude < SAFE_ZONE_MIN THEN aglToY(SAFE_ZONE_MIN + 50 * PS)
           ELSE IF controlAltitude > SAFE_ZONE_MAX THEN aglToY(SAFE_ZONE_MAX - 50 * PS)
           ELSE cy,
           cz)

\* a faulty near-arrival test: the progress of the blend is not looked at
NearArrivalAnyBlend(p) ==
    ShorterThan(Sub(p.smoothWaypoint, p.pos), 200 * PS)

\* the near-arrival test of main.js:1435-1439
NearArrival(p) ==
    /\ ShorterThan(Sub(p.smoothWaypoint, p.pos), 200 * PS)
    /\ p.waypointBlendFactor >= (BS * 99) \div 100

\* a faulty regeneration: the old waypoint is taken from the plane's
\* position instead of the steering target
StepRegenerateFromPosition(c) ==
    LET p == c.p
    IN IF NearArrival(p)
       THEN LET newWaypoint == generateWaypoint(p.pos, c.r, 0)
                started == [p EXCEPT !.waypoint = p.pos,
                                     !.targetWaypoint = newWaypoint,
                                     !.waypointBlendFactor = 0,
                                     !.regens = p.regens + 1]
                control == ControlPoint(p.smoothWaypoint, newWaypoint, c.r, 3)
                atReset == [waypoint |-> started.waypoint,
                            smoothWaypoint |-> started.smoothWaypoint,
                            targetWaypoint |-> started.targetWaypoint,
                            before |-> p.waypointBlendFactor]
            IN [c EXCEPT !.p = With(With(started, "waypointControlPoint", control),
                                    "atReset", atReset),
                         !.r = c.r + 5]
       ELSE c

\* waypoint regeneration, main.js:1434-1472
StepRegenerate(c) ==
    LET p == c.p
    IN IF NearArrival(p)
       THEN LET newWaypoint == generateWaypoint(p.pos, c.r, 0)
                started == [p EXCEPT !.waypoint = p.smoothWaypoint,
                                     !.targetWaypoint = newWaypoint,
                                     !.waypointBlendFactor = 0,
                                     !.regens = p.regens + 1]
                control == ControlPoint(p.smoothWaypoint, newWaypoint, c.r, 3)
                \* the anchors as they are right after the reset
                atReset == [waypoint |-> started.waypoint,
                            smoothWaypoint |-> started.smoothWaypoint,
                            targetWaypoint |-> started.targetWaypoint,
                            before |-> p.waypointBlendFactor]
            IN [c EXCEPT !.p = With(With(started, "waypointControlPoint", control),
                                    "atReset", atReset),
                         !.r = c.r + 5]
       ELSE c

\* a faulty increment: Math.min is missing
BlendIncrementUnclamped(b) == b + (BS * 3) \div 1000

\* the blend factor after one increment, main.js:1477-1478
BlendIncrement(b) == Min(BS, b + (BS * 3) \div 1000)

\* the quadratic Bezier point for blend factor t, main.js:1481-1491
Bezier(p0, p1, p2, t) ==
    LET u == BS - t
        oneMinusT == (u * u * u) \div (BS * BS)   \* 1 - eased
        eased == BS - oneMinusT
        w1 == 2 * oneMinusT * eased
        w2 == eased * eased
    IN Vec(p0.x + Weighted(p1.x - p0.x, w1) + Weighted(p2.x - p0.x, w2),
           p0.y + Weighted(p1.y - p0.y, w1) + Weighted(p2.y - p0.y, w2),
           p0.z + Weighted(p1.z - p0.z, w1) + Weighted(p2.z - p0.z, w2))

\* blending, main.js:1474-1494
StepBlend(c) ==
    LET p == c.p
    IN IF p.waypointBlendFactor < BS
       THEN LET t == BlendIncrement(p.waypointBlendFactor)
            IN [c EXCEPT !.p.waypointBlendFactor = t,
                         !.p.smoothWaypoint =
                             IF Has(p, "waypointControlPoint")
                             THEN Bezier(p.waypoint, p.waypointControlPoint,
                                         p.targetWaypoint, t)
                             ELSE Bezier(p.waypoint, p.waypoint, p.targetWaypoint, t)]
       ELSE c

\* keep the steering target's altitude in the safe zone, main.js:1501-1507
StepSteerClamp(c) ==
    LET a == yToAGL(c.p.smoothWaypoint.y)
    IN IF a < SAFE_ZONE_MIN
       THEN [c EXCEPT !.p.smoothWaypoint.y = aglToY(SAFE_ZONE_MIN + 20 * PS)]
       ELSE IF a > SAFE_ZONE_MAX
       THEN [c EXCEPT !.p.smoothWaypoint.y = aglToY(SAFE_ZONE_MAX - 20 * PS)]
       ELSE c

\* main.js:1520 and 1531 read the identifier waypointAltitude, which no scope
\* declares: evaluating it raises a ReferenceError.  The right operand of &&
\* is evaluated exactly when the left one is true.
ReadsUndeclared(altitude) ==
    LET floorDist == altitude - MIN_HEIGHT_AGL
        ceilingDist == MAX_HEIGHT_AGL - altitude
    IN IF floorDist < FLOOR_AVOIDANCE_DIST
       THEN floorDist < FLOOR_AVOIDANCE_DIST \div 2
       ELSE IF ceilingDist < CEILING_AVOIDANCE_DIST
       THEN ceilingDist < CEILING_AVOIDANCE_DIST \div 2
       ELSE FALSE

\* desiredClimb before the performance clamp, main.js:1510-1535
DesiredClimb(p, altitude) ==
    LET floorDist == altitude - MIN_HEIGHT_AGL
        ceilingDist == MAX_HEIGHT_AGL - altitude
        altitudeError == yToAGL(p.smoothWaypoint.y) - altitude
        seek == Div(Div(altitudeError * 6, 100) * p.climbPerformance, FS)
    IN IF floorDist < FLOOR_AVOIDANCE_DIST
       THEN LET urgency == FS - Div(floorDist, FLOOR_AVOIDANCE_DIST \div FS)
            IN seek + Div(Div(p.maxClimbRate * urgency, FS) * 6, 10)
       ELSE IF ceilingDist < CEILING_AVOIDANCE_DIST
       THEN LET urgency == FS - Div(ceilingDist, CEILING_AVOIDANCE_DIST \div FS)
            IN seek - Div(Div(p.maxDescentRate * urgency, FS) * 6, 10)
       ELSE seek

\* a faulty vertical control: desiredClimb is not clamped to the plane's limits
StepVerticalUnclamped(c, altitude) ==
    LET p == c.p
        dx == p.smoothWaypoint.x - p.pos.x
        dz == p.smoothWaypoint.z - p.pos.z
        desiredClimb == DesiredClimb(p, altitude)
        vSpeed == p.vSpeed + Div(desiredClimb - p.vSpeed, 5)
    IN [c EXCEPT !.p = updatePlaneProperties(
           [p EXCEPT !.targetHeading = Atan2(Div(dx, 1000), Div(dz, 1000)),
                     !.vSpeed = vSpeed,
                     !.pos.y = p.pos.y + Div(vSpeed, 60)])]

\* vertical control, main.js:1537-1559
StepVertical(c, altitude) ==
    LET p == c.p
        dx == p.smoothWaypoint.x - p.pos.x
        dz == p.smoothWaypoint.z - p.pos.z
        desiredClimb == Clamp(DesiredClimb(p, altitude), -p.maxDescentRate, p.maxClimbRate)
        vSpeed == p.vSpeed + Div(desiredClimb - p.vSpeed, 5)
    IN [c EXCEPT !.p = updatePlaneProperties(
           [p EXCEPT !.targetHeading = Atan2(Div(dx, 1000), Div(dz, 1000)),
                     !.vSpeed = vSpeed,
                     !.pos.y = p.pos.y + Div(vSpeed, 60)])]

\* one correction in each direction instead of the loops
WrapPiOnce(d) ==
    IF d > PI THEN d - TWO_PI
    ELSE IF d < -PI THEN d + TWO_PI
    ELSE d

RECURSIVE WrapPi(_)
\* the two while loops of main.js:1567-1568
WrapPi(d) ==
    IF d > PI THEN WrapPi(d - TWO_PI)
    ELSE IF d < -PI THEN WrapPi(d + TWO_PI)
    ELSE d

\* angular velocities are kept in 1/100 of the angle unit
VS == 10 * 10

\* the local headingDiff of main.js:1565-1568 kept with the plane: its
\* initial value and its value after the loops
Wrapped(p, raw, diff) == With(With(p, "headingRaw", raw), "headingDiff", diff)

\* yaw, roll and pitch with momentum, main.js:1564-1632
StepOrientation(c) ==
    LET p == c.p
        headingDiff == WrapPi(p.targetHeading - p.heading)
        yawVelocity == Clamp(Div((OrZero(p, "yawVelocity") + headingDiff * 2) * 97, 100),
                             -((6 * AS) \div 10), (6 * AS) \div 10)
        heading == p.heading + Div(yawVelocity, VS)
        targetRoll == Clamp(Div(-yawVelocity * 40, VS), -(PI \div 4), PI \div 4)
        rollError == targetRoll - p.roll
        rollVelocity == Clamp(Div((OrZero(p, "rollVelocity") + Div(rollError * 3, 2)) * 93, 100),
                              -((8 * AS) \div 10), (8 * AS) \div 10)
        roll == Clamp(p.roll + Div(rollVelocity, VS), -((PI * 2) \div 7), (PI * 2) \div 7)
        targetPitch == Clamp(Div(-p.vSpeed * 5, 2), -(PI \div 12), PI \div 12)
        pitchError == targetPitch - p.pitch
        pitchVelocity == Clamp(Div((OrZero(p, "pitchVelocity") + Div(pitchError * 4, 5)) * 95, 100),
                               -((5 * AS) \div 10), (5 * AS) \div 10)
        pitch == Clamp(p.pitch + Div(pitchVelocity, VS), -(PI \div 9), PI \div 9)
    IN [c EXCEPT !.p = Wrapped(With(With(With([p EXCEPT !.heading = heading,
                                                          !.roll = roll,
                                                          !.pitch = pitch],
                                                "yawVelocity", yawVelocity),
                                           "rollVelocity", rollVelocity),
                                      "pitchVelocity", pitchVelocity),
                              p.targetHeading - p.heading, headingDiff)]

\* mesh.translateZ(speed) under Euler order YXZ, main.js:1629-1635
translateZ(pos, heading, pitch, speed) ==
    LET flat == Div(speed * Cos(pitch), TS)
    IN Vec(pos.x + Div(flat * Sin(heading), TS),
           pos.y - Div(speed * Sin(pitch), TS),
           pos.z + Div(flat * Cos(heading), TS))

\* a fresh turbulence offset, main.js:1650-1655
TurbulenceOffset(strength, r, k) ==
    Vec(Div((Random(r, k) - RS \div 2) * strength * 4, RS),
        Div(Div((Random(r, k + 1) - RS \div 2) * strength * 4, RS) * 6, 10),
        Div((Random(r, k + 2) - RS \div 2) * strength * 4, RS))

\* forward motion, wind drift and turbulence, main.js:1634-1661
StepMove(c, env) ==
    LET p == c.p
        moved == translateZ(p.pos, p.heading, p.pitch, p.speed)
        windPushX == Div(Cos(env.windDirection) * env.windStrength, 200 * FS)
        windPushZ == Div(Sin(env.windDirection) * env.windStrength, 200 * FS)
        timer == p.turbulenceTimer + 1
        redraw == timer > TURBULENCE_FREQUENCY
        offset == IF redraw THEN TurbulenceOffset(env.windStrength, c.r, 0)
                  ELSE p.turbulenceOffset
    IN [c EXCEPT !.p.turbulenceTimer = IF redraw THEN 0 ELSE timer,
                 !.p.turbulenceOffset = offset,
                 !.p.pos = Vec(moved.x + windPushX + Div(offset.x, 20),
                               moved.y + Div(offset.y, 20),
                               moved.z + windPushZ + Div(offset.z, 20)),
                 !.r = IF redraw THEN c.r + 3 ELSE c.r]

\* sin(time * rate + lightTimer * weight), rate and weight in 1/10; time is
\* the frame timestamp in milliseconds, 1000/60 per frame
Wobble(env, lightTimer, rate, weight) ==
    LET perTick == ((AS * rate * 100) \div 60) % TWO_PI
        per1000 == (1000 * perTick) % TWO_PI
        timePhase == ((env.ticks \div 1000) * per1000
                        + (env.ticks % 1000) * perTick) % TWO_PI
        lightPhase == (((lightTimer * AS) \div 60) * weight) \div 10
    IN Sin(timePhase + (lightPhase % TWO_PI))

\* roll, pitch and yaw wobble, main.js:1663-1675
StepWobble(c, env) ==
    LET p == c.p
        ws == env.windStrength
        lt == p.lightTimer
        \* amplitude a (1/1000) * sine (TS) * strength (FS) * dt, in angle units
        Term(s, a) == Div(Div(s * ws, FS) * a, 6 * 1000)
        turbulenceRoll == Term(Wobble(env, lt, 5, 10), 40) + Term(Wobble(env, lt, 12, 7), 25)
        turbulencePitch == Term(Wobble(env, lt, 8, 13), 20) + Term(Wobble(env, lt, 15, 5), 15)
        turbulenceYaw == Term(Wobble(env, lt, 6, 9), 30)
    IN [c EXCEPT !.p.roll = p.roll + turbulenceRoll,
                 !.p.pitch = p.pitch + turbulencePitch,
                 !.p.heading = p.heading + turbulenceYaw]

\* the despawn test against the whole box size instead of its half
OutsideDespawnBoxFullSize(pos, camWorldPos) ==
    \/ Abs(pos.x - camWorldPos.x) > DESPAWN_BOX_SIZE
    \/ Abs(pos.z - camWorldPos.z) > DESPAWN_BOX_SIZE

\* the despawn test, main.js:1678-1680
OutsideDespawnBox(pos, camWorldPos) ==
    LET despawnHalf == DESPAWN_BOX_SIZE \div 2
    IN \/ Abs(pos.x - camWorldPos.x) > despawnHalf
       \/ Abs(pos.z - camWorldPos.z) > despawnHalf

\* the multiplier of the navigation lights, main.js:1689-1690 (1/1000)
lightMultiplier(t) == 1000 - (dayPhase(t) * 800) \div TS

\* despawn/respawn, or light timer and navigation lights, main.js:1677-1691;
\* tested records the position the despawn test was made on
StepDespawn(c, env) ==
    IF OutsideDespawnBox(c.p.pos, env.camWorldPos)
    THEN [c EXCEPT !.p = With(respawnPlane(c.p, env.camWorldPos, c.r),
                              "tested", c.p.pos),
                   !.r = c.r + RespawnDraws]
    ELSE [c EXCEPT !.p = With(With([c.p EXCEPT !.lightTimer = c.p.lightTimer + 1,
                                               !.event = "flew"],
                                   "tested", c.p.pos),
                              "lightMultiplier", lightMultiplier(env.timeOfDay))]

\* the callback raised at main.js:1520 or 1531: what it wrote so far stays
Thrown(c) == [p |-> [c.p EXCEPT !.event = "threw"], r |-> c.r, threw |-> TRUE]

\* the callback returned; seen is the frame of the plane's last full visit
Completed(c, env) == [p |-> [c.p EXCEPT !.seen = env.ticks], r |-> c.r, threw |-> FALSE]

\* the callback with the despawn test made first, on the position the frame
\* started with
VisitDespawnFirst(c, altitude, env) ==
    IF ReadsUndeclared(altitude)
    THEN Thrown(c)
    ELSE Completed(StepWobble(StepMove(StepOrientation(
                       StepVertical(StepDespawn(c, env), altitude)), env), env), env)

\* main.js:1496-1692 for a plane at the given altitude
Visit(c, altitude, env) ==
    IF ReadsUndeclared(altitude)
    THEN Thrown(c)
    ELSE Completed(StepDespawn(StepWobble(StepMove(StepOrientation(
                       StepVertical(c, altitude)), env), env), env), env)

\* one visit of the forEach callback, main.js:1398-1692
UpdatePlane(p, r, env) ==
    Visit(StepSteerClamp(StepBlend(StepRegenerate(StepSmoothInit(
              StepWaypointTimer([p |-> p, r |-> r]))))),
          yToAGL(p.pos.y), env)

RECURSIVE UpdateAll(_, _, _, _)
\* planes.forEach after the visit of plane i: an exception in one callback
\* ends the iteration
Advance(ps, i, res, env) ==
    IF res.threw
    THEN [planes |-> [ps EXCEPT ![i] = res.p], r |-> res.r, threw |-> TRUE]
    ELSE UpdateAll([ps EXCEPT ![i] = res.p], i + 1, res.r, env)

\* planes.forEach that visits no plane while a load is pending
UpdateAllWhenLoaded(ps, i, r, env) ==
    IF i > Len(ps) \/ pending > 0
    THEN [planes |-> ps, r |-> r, threw |-> FALSE]
    ELSE Advance(ps, i, UpdatePlane(ps[i], r, env), env)

\* planes.forEach from plane i on, main.js:1398
UpdateAll(ps, i, r, env) ==
    IF i > Len(ps)
    THEN [planes |-> ps, r |-> r, threw |-> FALSE]
    ELSE Advance(ps, i, UpdatePlane(ps[i], r, env), env)

-----------------------------------------------------------------------------
(* The frame: animate(), main.js:1309-1748.                                 *)

\* a wind change that draws the strength from [0, 2.5)
updateWindAnyStrength(dir, strength, timer, r) ==
    IF timer + 1 > WIND_CHANGE_INTERVAL
    THEN [direction |-> dir + Div((Random(r, 0) - RS \div 2) * (PI \div 2), RS),
          strength |-> RandRange(0, (FS * 5) \div 2, r, 1),
          timer |-> 0,
          r |-> r + 2]
    ELSE [direction |-> dir, strength |-> strength, timer |-> timer + 1, r |-> r]

\* a wind change that draws a new direction instead of a shift
updateWindNewDirection(dir, strength, timer, r) ==
    IF timer + 1 > WIND_CHANGE_INTERVAL
    THEN [direction |-> RandAngle(r, 0),
          strength |-> RandRange(FS \div 2, (FS * 3) \div 2, r, 1),
          timer |-> 0,
          r |-> r + 2]
    ELSE [direction |-> dir, strength |-> strength, timer |-> timer + 1, r |-> r]

\* a faulty updateWind: the timer is not reset by a change
updateWindNoReset(dir, strength, timer, r) ==
    IF timer + 1 > WIND_CHANGE_INTERVAL
    THEN [direction |-> dir + Div((Random(r, 0) - RS \div 2) * (PI \div 2), RS),
          strength |-> RandRange(FS \div 2, (FS * 3) \div 2, r, 1),
          timer |-> timer + 1,
          r |-> r + 2]
    ELSE [direction |-> dir, strength |-> strength, timer |-> timer + 1, r |-> r]

\* updateWind, main.js:1292-1306, as [direction, strength, timer, r]
updateWind(dir, strength, timer, r) ==
    IF timer + 1 > WIND_CHANGE_INTERVAL
    THEN [direction |-> dir + Div((Random(r, 0) - RS \div 2) * (PI \div 2), RS),
          strength |-> RandRange(FS \div 2, (FS * 3) \div 2, r, 1),
          timer |-> 0,
          r |-> r + 2]
    ELSE [direction |-> dir, strength |-> strength, timer |-> timer + 1, r |-> r]

Flag(m, f) == IF f \in m THEN 1 ELSE 0

\* camera movement, main.js:1324-1352.  Pointer lock is never engaged, so
\* the yaw is 0: forward is (0,0,-1) and right is (1,0,0).
moveCamera(pos, m) ==
    LET mx == Flag(m, "right") - Flag(m, "left")
        my == Flag(m, "up") - Flag(m, "down")
        mz == Flag(m, "backward") - Flag(m, "forward")
        lengthSq == mx * mx + my * my + mz * mz
        moveSpeed == (20 * DEBUG_CAMERA_SPEED_MULT * PS) \div 60
        step == IF lengthSq = 0 THEN 0
                ELSE (moveSpeed * TS) \div ISqrt(lengthSq * TS * TS)
        moved == Vec(pos.x + mx * step, pos.y + my * step, pos.z + mz * step)
    IN [moved EXCEPT !.y = IF moved.y < 2 * PS THEN 2 * PS ELSE moved.y]

\* camera.getWorldPosition: the camera sits 2.0 above yawObject (main.js:627)
cameraWorldPosition(pos) == Vec(pos.x, pos.y + 2 * PS, pos.z)

\* the steps of animate() in the order of its statements: the clock and
\* updateDayNightCycle (main.js:1313-1319), updateWind (1322), the camera
\* (1324-1352), terrainChunks.update (1366), planes.forEach (1398-1692) and
\* renderer.render (1747), which an exception in a callback skips
Phases(threw) ==
    <<"clock", "wind", "camera", "terrain", "planes">>
        \o (IF threw THEN <<>> ELSE <<"render">>)

\* the state a frame leaves: w the wind, pos the viewer, tm the terrain and
\* res the outcome of planes.forEach; render (main.js:1747) is reached only
\* if no callback raised
Commit(w, pos, tm, res) ==
    /\ ticks' = ticks + 1
    /\ timeOfDay' = advanceClock(timeOfDay, nightModeOnly)
    /\ sky' = updateDayNightCycle(advanceClock(timeOfDay, nightModeOnly))
    /\ windDirection' = w.direction
    /\ windStrength' = w.strength
    /\ windChangeTimer' = w.timer
    /\ viewer' = pos
    /\ active' = tm.active
    /\ chunkCenter' = tm.center
    /\ meshes' = tm.meshes
    /\ geometry' = tm.geometry
    /\ updates' = updates + 1
    /\ planes' = res.planes
    /\ rng' = res.r % PoolLen
    /\ tickLog' = [threw |-> res.threw, rendered |-> ~res.threw,
                   phases |-> Phases(res.threw)]
    /\ UNCHANGED <<nightModeOnly, movement, pending, planesLoaded, loadingScreen>>

\* what the callbacks see, main.js:1314-1322, 1360-1361 and 1398
Env(w, pos) ==
    [camWorldPos |-> cameraWorldPosition(pos), windDirection |-> w.direction,
     windStrength |-> w.strength, ticks |-> ticks + 1,
     timeOfDay |-> advanceClock(timeOfDay, nightModeOnly)]

\* the frame after the wind update and the camera movement
Frame(w, pos) ==
    Commit(w, pos,
           TerrainUpdate([active |-> active, center |-> chunkCenter,
                          meshes |-> meshes,
                             geometry |-> geometry], pos),
           UpdateAll(planes, 1, w.r, Env(w, pos)))

\* one call of animate(time), main.js:1309-1748
Animate ==
    Frame(updateWind(windDirection, windStrength, windChangeTimer, rng),
          moveCamera(viewer, movement))

\* main.js:638 has 10 planes; the model has fewer
MAX_PLANES == 2

\* a faulty schedule: the first load that settles starts the timer
ScreenAfterFirst(count, screen) == IF count >= 1 THEN "scheduled" ELSE screen

\* the loading screen after a load has settled and planesLoaded has become
\* count, main.js:1180-1185: the last load starts the 300 ms timer
ScreenAfter(count, screen) == IF count >= MAX_PLANES THEN "scheduled" ELSE screen

\* the position every initial spawn is centred on, main.js:1174
StartPosition == Vec(CHUNK_SIZE \div 2, 0, CHUNK_SIZE \div 2)

\* a failed model load that leaves the population without its plane
SpawnSettleDropsFailed(placeholder) ==
    /\ pending > 0
    /\ planes' = IF placeholder THEN planes
                 ELSE Append(planes, [createPlane(cameraWorldPosition(StartPosition),
                                                  rng, placeholder)
                                      EXCEPT !.seen = ticks])
    /\ rng' = IF placeholder THEN rng ELSE (rng + CreateDraws) % PoolLen
    /\ pending' = pending - 1
    /\ planesLoaded' = planesLoaded + 1
    /\ loadingScreen' = ScreenAfter(planesLoaded + 1, loadingScreen)
    /\ UNCHANGED <<ticks, timeOfDay, nightModeOnly, windDirection, windStrength,
                   windChangeTimer, movement, viewer, active, chunkCenter, meshes, geometry,
                   updates, sky, tickLog>>

\* a createPlanePlaceholder promise fulfils, main.js:1175-1186; placeholder:
\* loadPlaneModel fell back to the box mesh (main.js:781-787).  The promise
\* never rejects: the only throw of createPlanePlaceholder (main.js:846)
\* needs createPlaneGeometry to return nothing, and it returns the wrapper of
\* normalizeModel for a loaded model and for the box mesh alike, so the
\* catch of main.js:1187-1192 has nothing to handle.
SpawnSettle(placeholder) ==
    /\ pending > 0
    /\ planes' = Append(planes, [createPlane(cameraWorldPosition(StartPosition),
                                              rng, placeholder)
                                  EXCEPT !.seen = ticks])
    /\ rng' = (rng + CreateDraws) % PoolLen
    /\ pending' = pending - 1
    /\ planesLoaded' = planesLoaded + 1
    /\ loadingScreen' = ScreenAfter(planesLoaded + 1, loadingScreen)
    /\ UNCHANGED <<ticks, timeOfDay, nightModeOnly, windDirection, windStrength,
                   windChangeTimer, movement, viewer, active, chunkCenter, meshes, geometry,
                   updates, sky, tickLog>>

\* the flag a key code sets, main.js:512-519
Keys == {"forward", "backward", "left", "right", "up", "down"}

\* onKeyDown for a movement key, main.js:504-521
onKeyDown(k) ==
    /\ k \in Keys
    /\ movement' = movement \cup {k}
    /\ UNCHANGED <<rng, ticks, timeOfDay, nightModeOnly, windDirection, windStrength,
                   windChangeTimer, viewer, active, chunkCenter, meshes, geometry, updates,
                   pending, planesLoaded, loadingScreen, planes, sky, tickLog>>

\* onKeyUp, main.js:523-532
onKeyUp(k) ==
    /\ k \in Keys
    /\ movement' = movement \ {k}
    /\ UNCHANGED <<rng, ticks, timeOfDay, nightModeOnly, windDirection, windStrength,
                   windChangeTimer, viewer, active, chunkCenter, meshes, geometry, updates,
                   pending, planesLoaded, loadingScreen, planes, sky, tickLog>>

\* key 'N' (main.js:506-511) or the night-mode button (main.js:538-544)
toggleNightMode ==
    /\ nightModeOnly' = ~nightModeOnly
    /\ UNCHANGED <<rng, ticks, timeOfDay, windDirection, windStrength,
                   windChangeTimer, movement, viewer, active, chunkCenter, meshes, geometry,
                   updates, pending, planesLoaded, loadingScreen, planes, sky, tickLog>>

-----------------------------------------------------------------------------
(* The program: construction, then frames, load completions and input.      *)

MaxSeed == 1
MaxTicks == 3700

\* the state after the module body has run (main.js:14-1193): the wind is
\* drawn at main.js:42-43, the terrain is updated once at main.js:451-453
\* and MAX_PLANES spawns are pending.  The draws of the sky, the stars and
\* the model choice only advance the stream.
Init ==
    \E s \in 0..MaxSeed :
        LET tm == TerrainUpdate(NewTerrain, StartPosition)
        IN /\ rng = (s + 2) % PoolLen
           /\ ticks = 0
           /\ timeOfDay = ToDS \div 4
           /\ nightModeOnly = FALSE
           /\ windDirection = RandAngle(s, 0)
           /\ windStrength = RandRange(FS \div 2, (FS * 3) \div 2, s, 1)
           /\ windChangeTimer = 0
           /\ movement = {}
           /\ viewer = StartPosition
           /\ active = tm.active
           /\ chunkCenter = tm.center
           /\ meshes = tm.meshes
           /\ geometry = tm.geometry
           /\ updates = 1
           /\ pending = MAX_PLANES
           /\ planesLoaded = 0
           /\ loadingScreen = ScreenAfter(0, "shown")
           /\ planes = <<>>
           /\ sky = NewSky
           /\ tickLog = [threw |-> FALSE, rendered |-> FALSE, phases |-> <<>>]

\* Frames run up to the horizon; the loads settle and the keys are touched
\* before the first frame.
Tick == ticks < MaxTicks /\ Animate
Settle == ticks = 0 /\ SpawnSettle(FALSE)
KeyDown == ticks = 0 /\ onKeyDown("right")
KeyUp == ticks = 0 /\ onKeyUp("right")
NightToggle == ticks = 0 /\ toggleNightMode

Next == Tick \/ Settle \/ KeyDown \/ KeyUp \/ NightToggle

Spec == Init /\ [][Next]_vars

-----------------------------------------------------------------------------
(* Loading: the first frames of the program, while the model loads settle   *)
(* at any moment, each with its model or with the box mesh.                 *)

LoadTicks == 6

LoadTick == ticks < LoadTicks /\ Animate
LoadSettle == \E placeholder \in BOOLEAN : SpawnSettle(placeholder)

LoadNext == LoadTick \/ LoadSettle

SpecLoading == Init /\ [][LoadNext]_vars

-----------------------------------------------------------------------------
(* The clock and the wind over a whole day: the loads stay pending, so      *)
(* the population is empty; night mode is toggled in the first frames and   *)
(* right after the clock has wrapped.                                       *)

ClockTicks == 60010

\* the frame in which the clock, started at 0.25 (main.js:33), wraps
WrapTick == ToDS - ToDS \div 4

ClockTick == ticks < ClockTicks /\ Animate
\* the key 'N' or the button, in the first two frames and in the two frames
\* after the wrap
ClockNight ==
    /\ ticks <= 1 \/ (ticks > WrapTick /\ ticks <= WrapTick + 2)
    /\ toggleNightMode

ClockNext == ClockTick \/ ClockNight

SpecClock == Init /\ [][ClockNext]_vars

-----------------------------------------------------------------------------
(* The heading scenario: the program holding one plane that has turned to   *)
(* any heading, with its waypoint at any bearing, and then frames.          *)

HeadingTicks == 2

\* headings a plane reaches by turning: multiples of pi and of pi/2, and
\* values next to them and far from them
Headings ==
    {k * PI : k \in -5..5} \cup {k * HALF_PI : k \in {-7, -3, -1, 1, 3, 7}}
        \cup {PI + 1, PI - 1, -PI - 1, 1 - PI, 25 * AS, -(25 * AS)}

\* where the waypoint lies, as steps of 1000 on x and z
Bearings == {<<0, 1>>, <<1, 0>>, <<0, -1>>, <<-1, 0>>, <<1, 1>>, <<-1, -1>>}

\* a plane as createPlanePlaceholder builds it, turned to the heading, with
\* its waypoint level with it at the bearing
headPlane(p, heading, b) ==
    [p EXCEPT !.heading = heading,
              !.waypoint = Vec(p.pos.x + b[1] * 1000 * PS, p.pos.y,
                               p.pos.z + b[2] * 1000 * PS)]

HeadingInit ==
    \E s \in 0..MaxSeed, heading \in Headings, b \in Bearings :
        LET tm == TerrainUpdate(NewTerrain, StartPosition)
            centre == cameraWorldPosition(StartPosition)
        IN /\ rng = (s + 2 + CreateDraws) % PoolLen
           /\ ticks = 0
           /\ timeOfDay = ToDS \div 4
           /\ nightModeOnly = FALSE
           /\ windDirection = RandAngle(s, 0)
           /\ windStrength = RandRange(FS \div 2, (FS * 3) \div 2, s, 1)
           /\ windChangeTimer = 0
           /\ movement = {}
           /\ viewer = StartPosition
           /\ active = tm.active
           /\ chunkCenter = tm.center
           /\ meshes = tm.meshes
           /\ geometry = tm.geometry
           /\ updates = 1
           /\ pending = MAX_PLANES - 1
           /\ planesLoaded = 1
           /\ loadingScreen = ScreenAfter(1, "shown")
           /\ planes = <<headPlane(createPlane(centre, s + 2, FALSE), heading, b)>>
           /\ sky = NewSky
           /\ tickLog = [threw |-> FALSE, rendered |-> FALSE, phases |-> <<>>]

HeadingTick == ticks < HeadingTicks /\ Animate

SpecHeading == HeadingInit /\ [][HeadingTick]_vars

-----------------------------------------------------------------------------
(* The floor and ceiling scenario: the program after construction holding   *)
(* two planes, one of them placed inside a danger zone with maxClimbRate    *)
(* 1.0, and then only frames.                                               *)

ScenarioTicks == 300

\* the placements: 10 and 100 above the floor, 10 and 100 below the ceiling
\* (the inner and the outer half of each danger zone)
Placements == {MIN_HEIGHT_AGL + 10 * PS, MAX_HEIGHT_AGL - 10 * PS,
               MIN_HEIGHT_AGL + 100 * PS, MAX_HEIGHT_AGL - 100 * PS}

\* a plane as createPlanePlaceholder builds it (main.js:964-1016), moved to
\* the given height above ground; placed records that height
placePlane(p, agl) ==
    With(updatePlaneProperties([p EXCEPT !.pos.y = aglToY(agl), !.maxClimbRate = PS]),
         "placed", agl)

ScenarioInit ==
    \E s \in 0..MaxSeed, agl \in Placements, slot \in 1..2 :
        LET tm == TerrainUpdate(NewTerrain, StartPosition)
            centre == cameraWorldPosition(StartPosition)
            first == createPlane(centre, s + 2, FALSE)
            second == createPlane(centre, s + 2 + CreateDraws, FALSE)
        IN /\ rng = (s + 2 + 2 * CreateDraws) % PoolLen
           /\ ticks = 0
           /\ timeOfDay = ToDS \div 4
           /\ nightModeOnly = FALSE
           /\ windDirection = RandAngle(s, 0)
           /\ windStrength = RandRange(FS \div 2, (FS * 3) \div 2, s, 1)
           /\ windChangeTimer = 0
           /\ movement = {}
           /\ viewer = StartPosition
           /\ active = tm.active
           /\ chunkCenter = tm.center
           /\ meshes = tm.meshes
           /\ geometry = tm.geometry
           /\ updates = 1
           /\ pending = 0
           /\ planesLoaded = 2
           /\ loadingScreen = ScreenAfter(2, "shown")
           /\ planes = IF slot = 1 THEN <<placePlane(first, agl), second>>
                                  ELSE <<first, placePlane(second, agl)>>
           /\ sky = NewSky
           /\ tickLog = [threw |-> FALSE, rendered |-> FALSE, phases |-> <<>>]

ScenarioTick == ticks < ScenarioTicks /\ Animate

SpecScenario == ScenarioInit /\ [][ScenarioTick]_vars

-----------------------------------------------------------------------------
(* The terrain streamer on its own: update called with any viewpoints.      *)

MaxUpdates == 4

ViewX == {-((5 * CHUNK_SIZE) \div 2), -PS, 0, CHUNK_SIZE \div 2, CHUNK_SIZE,
          3 * CHUNK_SIZE + PS}
ViewZ == {-PS, CHUNK_SIZE \div 2, CHUNK_SIZE - PS, 2 * CHUNK_SIZE}

\* terrainChunks.update(position) for the viewpoint (x, z), main.js:1366
UpdateAt(x, z) ==
    LET pos == Vec(x, viewer.y, z)
        tm == TerrainUpdate([active |-> active, center |-> chunkCenter,
                             meshes |-> meshes,
                             geometry |-> geometry], pos)
    IN /\ updates < MaxUpdates
       /\ viewer' = pos
       /\ active' = tm.active
       /\ chunkCenter' = tm.center
       /\ meshes' = tm.meshes
       /\ geometry' = tm.geometry
       /\ updates' = updates + 1
       /\ UNCHANGED <<rng, ticks, timeOfDay, nightModeOnly, windDirection,
                      windStrength, windChangeTimer, movement, pending,
                      planesLoaded, loadingScreen, planes, sky, tickLog>>

Stream == \E x \in ViewX, z \in ViewZ : UpdateAt(x, z)

SpecTerrain == Init /\ [][Stream]_vars

-----------------------------------------------------------------------------
(* A plane that is respawned while a blend is in progress.  respawnPlane     *)
(* (main.js:1025-1072) moves the plane and gives it a new plane.waypoint but  *)
(* leaves smoothWaypoint, targetWaypoint, waypointControlPoint and            *)
(* waypointBlendFactor as they are; the respawn position is drawn around the *)
(* camera, independently of where the target of the blend lies.              *)

ArrivalTicks == 40

\* the blend factor at the respawn
ArrivalBlends ==
    {BS \div 2, (BS * 981) \div 1000, (BS * 99) \div 100, (BS * 996) \div 1000, BS}

\* how far east of the respawn position the target of the blend lies
ArrivalOffsets == {100 * PS, 300 * PS}

\* how many frames are left on the periodic waypoint timer (main.js:1414),
\* which neither a regeneration nor a respawn resets
ArrivalTimers == {5, 1000}

\* a plane as createPlanePlaceholder builds it, in the state a respawn at its
\* position leaves when the blend toward a target that lies off east of that
\* position, from the waypoint old, had reached the factor b, with left
\* frames to go on the waypoint timer
arrivingPlane(p, old, off, b, left) ==
    LET target == Vec(p.pos.x + off, p.pos.y, p.pos.z)
        control == Vec(Div(old.x + target.x, 2), p.pos.y, Div(old.z + target.z, 2))
        smooth == Bezier(old, control, target, b)
        atReset == [waypoint |-> old, smoothWaypoint |-> old,
                    targetWaypoint |-> target, before |-> BS]
    IN With(With(With(With(With(
           [p EXCEPT !.event = "respawned", !.respawns = 1, !.regens = 1,
                     !.waypointTimer = p.waypointInterval - left],
           "smoothWaypoint", smooth),
           "targetWaypoint", target),
           "waypointControlPoint", control),
           "waypointBlendFactor", b),
           "atReset", atReset)

ArrivalInit ==
    \E s \in 0..MaxSeed, b \in ArrivalBlends, off \in ArrivalOffsets,
       left \in ArrivalTimers :
        LET tm == TerrainUpdate(NewTerrain, StartPosition)
            centre == cameraWorldPosition(StartPosition)
            first == createPlane(centre, s + 2, FALSE)
            old == Vec(first.pos.x - 1000 * PS, first.pos.y, first.pos.z)
        IN /\ rng = (s + 2 + CreateDraws) % PoolLen
           /\ ticks = 0
           /\ timeOfDay = ToDS \div 4
           /\ nightModeOnly = FALSE
           /\ windDirection = RandAngle(s, 0)
           /\ windStrength = RandRange(FS \div 2, (FS * 3) \div 2, s, 1)
           /\ windChangeTimer = 0
           /\ movement = {}
           /\ viewer = StartPosition
           /\ active = tm.active
           /\ chunkCenter = tm.center
           /\ meshes = tm.meshes
           /\ geometry = tm.geometry
           /\ updates = 1
           /\ pending = MAX_PLANES - 1
           /\ planesLoaded = 1
           /\ loadingScreen = ScreenAfter(1, "shown")
           /\ planes = <<arrivingPlane(first, old, off, b, left)>>
           /\ sky = NewSky
           /\ tickLog = [threw |-> FALSE, rendered |-> FALSE, phases |-> <<>>]

ArrivalTick == ticks < ArrivalTicks /\ Animate

SpecArrival == ArrivalInit /\ [][ArrivalTick]_vars

-----------------------------------------------------------------------------
(* The basic variants, src/script.js and src/unnamed/part_000: planes fly    *)
(* straight over a fixed scene and are wrapped around at +-300.  The         *)
(* wrap-around code of the two files is the same (script.js:149-168,         *)
(* part_000:270-289); part_000 scales the step by dt * 60, which is 1 for    *)
(* frames 1/60 s apart, the step script.js always takes.  Here planes is the *)
(* planes array of script.js:36 and rng and ticks are as above; the other    *)
(* variables have no counterpart and keep the values BasicInit gives them.   *)

\* script.js:39-40
MAX_HEIGHT == 150 * PS
MIN_HEIGHT == 10 * PS

\* the bound of the wrap-around test, script.js:149-150
WrapLimit == 300 * PS

\* number of planes of the basic scene (script.js:41 has 10)
BasicPlanes == 2
BasicTicks == 400

\* plane.speed of updatePlaneProperties, script.js:92-96 (PS per frame)
basicSpeed(y) ==
    LET heightRatio == ((y - MIN_HEIGHT) * FS) \div (MAX_HEIGHT - MIN_HEIGHT)
    IN PS \div 20 + (heightRatio * 4 * PS) \div (10 * FS)

\* Math.random() * (MAX_HEIGHT - MIN_HEIGHT) + MIN_HEIGHT, script.js:79, 165
basicHeight(r, k) == RandRange(MIN_HEIGHT, MAX_HEIGHT - MIN_HEIGHT, r, k)

\* createPlanePlaceholder, script.js:44-89 (five draws)
basicCreate(r) ==
    LET y == basicHeight(r, 3)
    IN [pos |-> Vec((Random(r, 1) - RS \div 2) * ((500 * PS) \div RS),
                    y,
                    (Random(r, 2) - RS \div 2) * ((500 * PS) \div RS)),
        rotation |-> RandAngle(r, 4),
        speed |-> basicSpeed(y),
        lightTimer |-> (Random(r, 0) * 50 * 60) \div RS,
        \* history: where the movement of the last frame took the plane
        moved |-> Vec(0, 0, 0),
        event |-> "created"]

\* mesh.translateZ(speed) for a mesh turned about y only, script.js:146
basicTranslateZ(pos, rotation, speed) ==
    Vec(pos.x + Div(speed * Sin(rotation), TS),
        pos.y,
        pos.z + Div(speed * Cos(rotation), TS))

\* the wrap-around test, script.js:149-150
OutsideScene(pos) ==
    \/ pos.x > WrapLimit \/ pos.x < -WrapLimit
    \/ pos.z > WrapLimit \/ pos.z < -WrapLimit

\* the repositioning, script.js:152-167 (two draws)
basicWrap(p, r) ==
    LET directionZ == Cos(p.rotation)
        directionX == Sin(p.rotation)
        y == basicHeight(r, 0)
        x == IF Abs(directionX) > Abs(directionZ)
             THEN (IF directionX > 0 THEN -WrapLimit ELSE WrapLimit)
             ELSE p.pos.x
        z == IF Abs(directionX) > Abs(directionZ)
             THEN p.pos.z
             ELSE (IF directionZ > 0 THEN -WrapLimit ELSE WrapLimit)
    IN [p EXCEPT !.pos = Vec(x, y, z),
                 !.rotation = RandAngle(r, 1),
                 !.speed = basicSpeed(y),
                 !.event = "wrapped"]

\* the body of planes.forEach, script.js:143-173
basicUpdate(p, r) ==
    LET at == basicTranslateZ(p.pos, p.rotation, p.speed)
        q == [p EXCEPT !.pos = at, !.moved = at, !.event = "moved"]
    IN IF OutsideScene(at)
       THEN [p |-> [basicWrap(q, r) EXCEPT !.lightTimer = @ + 1], r |-> r + 2]
       ELSE [p |-> [q EXCEPT !.lightTimer = @ + 1], r |-> r]

\* planes.forEach over the array, in order
RECURSIVE basicUpdateAll(_, _, _)
basicUpdateAll(ps, i, r) ==
    IF i > Len(ps) THEN [planes |-> ps, r |-> r]
    ELSE basicUpdateAll([ps EXCEPT ![i] = basicUpdate(ps[i], r).p], i + 1,
                        basicUpdate(ps[i], r).r)

\* the initial plane generation, script.js:131-133
RECURSIVE basicPopulation(_, _)
basicPopulation(n, r) ==
    IF n = 0 THEN <<>>
    ELSE <<basicCreate(r)>> \o basicPopulation(n - 1, r + 5)

BasicInit ==
    \E s \in 0..MaxSeed :
        /\ rng = (s + 5 * BasicPlanes) % PoolLen
        /\ ticks = 0
        /\ planes = basicPopulation(BasicPlanes, s)
        /\ timeOfDay = 0
        /\ nightModeOnly = FALSE
        /\ windDirection = 0
        /\ windStrength = 0
        /\ windChangeTimer = 0
        /\ movement = {}
        /\ viewer = Vec(0, 50 * PS, 50 * PS)
        /\ active = NewTerrain.active
        /\ chunkCenter = NewTerrain.center
        /\ meshes = NewTerrain.meshes
        /\ geometry = NewTerrain.geometry
        /\ updates = 0
        /\ pending = 0
        /\ planesLoaded = 0
        /\ loadingScreen = "shown"
        /\ sky = NewSky
        /\ tickLog = [threw |-> FALSE, rendered |-> FALSE, phases |-> <<>>]

\* one call of animate(time), script.js:136-176
BasicAnimate ==
    /\ ticks < BasicTicks
    /\ ticks' = ticks + 1
    /\ planes' = basicUpdateAll(planes, 1, rng).planes
    /\ rng' = basicUpdateAll(planes, 1, rng).r % PoolLen
    /\ UNCHANGED <<timeOfDay, nightModeOnly, windDirection, windStrength,
                   windChangeTimer, movement, viewer, active, chunkCenter, meshes,
                   geometry, updates, pending, planesLoaded, loadingScreen, sky,
                   tickLog>>

SpecBasic == BasicInit /\ [][BasicAnimate]_vars

-----------------------------------------------------------------------------
(* The loading screen, main.js:1161-1193: loads, frames and the two timers. *)
(* A pending promise settles and a timer that was set fires: the event loop *)
(* runs every callback that is due, so both are weakly fair.                *)

\* the 300 ms timer of main.js:1181-1184 fires: hideLoadingScreen
\* (main.js:1162-1169) adds the class fade-out and sets the 800 ms timer
HideTimer ==
    /\ loadingScreen = "scheduled"
    /\ loadingScreen' = "fading"
    /\ UNCHANGED <<rng, ticks, timeOfDay, nightModeOnly, windDirection,
                   windStrength, windChangeTimer, movement, viewer, active,
                   chunkCenter, meshes, geometry, updates, pending, planesLoaded,
                   planes, sky, tickLog>>

\* the 800 ms timer of main.js:1165-1167 fires: display = 'none'
FadeTimer ==
    /\ loadingScreen = "fading"
    /\ loadingScreen' = "hidden"
    /\ UNCHANGED <<rng, ticks, timeOfDay, nightModeOnly, windDirection,
                   windStrength, windChangeTimer, movement, viewer, active,
                   chunkCenter, meshes, geometry, updates, pending, planesLoaded,
                   planes, sky, tickLog>>

ScreenTicks == 3

ScreenTick == ticks < ScreenTicks /\ Animate

ScreenNext == ScreenTick \/ LoadSettle \/ HideTimer \/ FadeTimer

SpecScreen ==
    /\ Init
    /\ [][ScreenNext]_vars
    /\ WF_vars(LoadSettle)
    /\ WF_vars(HideTimer)
    /\ WF_vars(FadeTimer)

-----------------------------------------------------------------------------
(* Properties *)

Planes == 1..Len(planes)
AGL(i) == yToAGL(planes[i].pos.y)
JustSpawned(i) == planes[i].event \in {"spawned", "respawned"}

\* C1: no entity state is fatal to the frame.  After every frame, nothing
\* was raised, every plane of the population was visited to the end of its
\* update in that frame, and the frame reached its render step; this for a
\* plane within half an avoidance distance of the floor or the ceiling too.
C1_FrameCompletes ==
    ticks > 0 =>
        /\ ~tickLog.threw
        /\ tickLog.rendered
        /\ \A i \in Planes : planes[i].seen = ticks

\* C2: after every frame every plane's height above ground lies within
\* [MIN_HEIGHT_AGL, MAX_HEIGHT_AGL].
C2_AltitudeBand ==
    \A i \in Planes : AGL(i) >= MIN_HEIGHT_AGL /\ AGL(i) <= MAX_HEIGHT_AGL

\* a frame has passed in which one plane flew on after a respawn and
\* another one after a waypoint regeneration, both with fresh turbulence
C2_Witness ==
    \E i, j \in Planes :
        /\ planes[i].respawns > 0 /\ planes[i].event = "flew"
        /\ planes[j].regens > 0 /\ planes[j].event = "flew"
        /\ planes[i].turbulenceOffset # Vec(0, 0, 0)
        /\ AGL(i) >= MIN_HEIGHT_AGL /\ AGL(j) <= MAX_HEIGHT_AGL

\* C3: floor recovery.  A plane placed 10 above the floor with maxClimbRate
\* 1.0 has, after ScenarioTicks frames, a height above ground greater than
\* MIN_HEIGHT_AGL + FLOOR_AVOIDANCE_DIST / 2, and greater than where it was
\* placed.
C3_FloorRecovery ==
    \A i \in Planes :
        (/\ ticks = ScenarioTicks
         /\ Has(planes[i], "placed")
         /\ planes[i].placed = MIN_HEIGHT_AGL + 10 * PS)
        => /\ AGL(i) > MIN_HEIGHT_AGL + FLOOR_AVOIDANCE_DIST \div 2
           /\ AGL(i) > planes[i].placed

\* C4: every plane's waypointBlendFactor stays in [0, 1] and no step lowers
\* it except a waypoint regeneration: a step that lowers it is a frame in
\* which the plane chose a new targetWaypoint and restarted the blend from 0.
C4_BlendFactor ==
    [][\A i \in 1..Len(planes') :
         Has(planes'[i], "waypointBlendFactor") =>
            /\ planes'[i].waypointBlendFactor >= 0
            /\ planes'[i].waypointBlendFactor <= BS
            /\ (/\ i \in Planes
                /\ Has(planes[i], "waypointBlendFactor")
                /\ planes'[i].waypointBlendFactor < planes[i].waypointBlendFactor)
               => /\ planes'[i].regens = planes[i].regens + 1
                  /\ planes'[i].targetWaypoint = planes'[i].atReset.targetWaypoint
                  /\ planes'[i].targetWaypoint # planes[i].targetWaypoint
                  /\ planes'[i].waypointBlendFactor = BlendIncrement(0)]_vars

\* a plane is part-way through the blend that followed a regeneration
C4_Witness ==
    \E i \in Planes :
        /\ planes[i].regens > 0
        /\ planes[i].waypointBlendFactor > BS \div 2
        /\ planes[i].waypointBlendFactor < BS

\* C5: curve endpoint exactness.  Right after the blend factor is reset to 0
\* the steering target smoothWaypoint equals plane.waypoint, and whenever
\* the blend factor is 1 smoothWaypoint equals targetWaypoint.
C5_CurveEndpoints ==
    \A i \in Planes :
        /\ Has(planes[i], "atReset") =>
               planes[i].atReset.smoothWaypoint = planes[i].atReset.waypoint
        /\ (Has(planes[i], "waypointBlendFactor") /\ planes[i].waypointBlendFactor = BS)
               => planes[i].smoothWaypoint = planes[i].targetWaypoint

\* a plane has finished the blend that followed a regeneration
C5_Witness ==
    \E i \in Planes :
        /\ planes[i].regens > 0
        /\ planes[i].waypointBlendFactor = BS
        /\ planes[i].smoothWaypoint = planes[i].atReset.targetWaypoint
        /\ planes[i].smoothWaypoint # planes[i].atReset.smoothWaypoint

\* the chunk a coordinate falls in: the c with c * CHUNK_SIZE <= x < (c + 1) * CHUNK_SIZE
ChunkRange == -8..8
ChunkOf(x) ==
    CHOOSE c \in ChunkRange : c * CHUNK_SIZE <= x /\ x < (c + 1) * CHUNK_SIZE

\* C6: terrain streaming idempotence.  A call of update with a viewpoint in
\* the chunk of the previous call's viewpoint creates no chunk, destroys no
\* chunk and leaves the loaded set and its mesh handles as they were.
C6_UpdateIdempotent ==
    [][(/\ updates' = updates + 1
        /\ ChunkOf(viewer'.x) = ChunkOf(viewer.x)
        /\ ChunkOf(viewer'.z) = ChunkOf(viewer.z))
       => /\ active' = active
          /\ meshes' = meshes
          /\ chunkCenter' = chunkCenter]_vars

\* update has been called at two different viewpoints of one chunk, after a
\* crossing that created chunks
C6_Witness ==
    /\ updates >= 3
    /\ meshes > (2 * CHUNK_RADIUS + 1) * (2 * CHUNK_RADIUS + 1)
    /\ viewer.x = 0
    /\ viewer.z = CHUNK_SIZE - PS
    /\ chunkCenter = <<0, 0>>

\* the keys of the square around the chunk of the viewpoint (x, z)
Square(x, z) ==
    {key(ChunkOf(x) + dx, ChunkOf(z) + dz) :
        dx \in -CHUNK_RADIUS..CHUNK_RADIUS, dz \in -CHUNK_RADIUS..CHUNK_RADIUS}

\* C7: after every update the loaded keys are exactly the (2R+1)^2 square
\* around the chunk of the latest viewpoint, and each key has one mesh of
\* its own, placed at its chunk.
C7_LoadedSquare ==
    /\ DOMAIN active = Square(viewer.x, viewer.z)
    /\ Cardinality(DOMAIN active) = (2 * CHUNK_RADIUS + 1) * (2 * CHUNK_RADIUS + 1)
    /\ \A k \in DOMAIN active :
          /\ active[k].x = k[1] * CHUNK_SIZE
          /\ active[k].z = k[2] * CHUNK_SIZE
          /\ \A j \in DOMAIN active : active[j].id = active[k].id => j = k

\* the viewpoint has jumped several chunks to negative coordinates
C7_Witness ==
    /\ updates >= 3
    /\ viewer.x = -((5 * CHUNK_SIZE) \div 2)
    /\ viewer.z = -PS
    /\ chunkCenter = <<-3, -1>>
    /\ <<-4, -2>> \in DOMAIN active

\* the error of the fixed-point sine and cosine over a spawn radius
TrigSlack == PS \div 2

\* horizontal distance of plane i from its spawn centre
SpawnDistance(i) ==
    LET dx == Div(planes[i].pos.x - planes[i].centre.x, 1000)
        dz == Div(planes[i].pos.z - planes[i].centre.z, 1000)
    IN ISqrt(dx * dx + dz * dz) * 1000

C9_SpawnVSpeed ==
    \A i \in Planes :
        JustSpawned(i) =>
            /\ planes[i].vSpeed >= 0
            /\ 2 * planes[i].vSpeed <= planes[i].maxClimbRate

\* a plane has just been respawned with a positive vSpeed
C9_Witness ==
    \E i \in Planes :
        /\ planes[i].event = "respawned"
        /\ planes[i].respawns = 1
        /\ planes[i].vSpeed > 0

\* C10: after any respawn pitch and roll are 0 and the smoothing velocities
\* yawVelocity, rollVelocity and pitchVelocity are 0.
C10_RespawnNeutral ==
    \A i \in Planes :
        planes[i].event = "respawned" =>
            /\ planes[i].pitch = 0
            /\ planes[i].roll = 0
            /\ OrZero(planes[i], "yawVelocity") = 0
            /\ OrZero(planes[i], "rollVelocity") = 0
            /\ OrZero(planes[i], "pitchVelocity") = 0

\* C11: despawn policy.  In every frame a plane is respawned if and only if
\* the position its movement of that frame produced is more than
\* DESPAWN_BOX_SIZE / 2 from the viewer on the x or on the z axis; so after
\* every frame every plane lies inside the despawn box around the camera
\* position of that frame.
C11_DespawnPolicy ==
    ticks > 0 =>
        \A i \in Planes :
            LET cam == cameraWorldPosition(viewer)
                half == DESPAWN_BOX_SIZE \div 2
                Out(pos) == \/ Abs(pos.x - cam.x) > half
                            \/ Abs(pos.z - cam.z) > half
            IN /\ planes[i].event \in {"flew", "respawned"}
               /\ planes[i].event = "respawned" <=> Out(planes[i].tested)
               /\ ~Out(planes[i].pos)

\* a plane that left the box in this frame and was respawned inside it, next
\* to a plane that stayed inside and was not
C11_Witness ==
    /\ ticks > 0
    /\ \E i, j \in Planes :
          /\ planes[i].event = "respawned"
          /\ Abs(planes[i].tested.x - viewer.x) > DESPAWN_BOX_SIZE \div 2
          /\ Abs(planes[i].pos.x - viewer.x) <= SPAWN_DISTANCE_MAX + TrigSlack
          /\ planes[j].event = "flew"

\* the flight state createPlanePlaceholder gives a plane, main.js:960-1013
FlightFields ==
    {"pos", "speed", "baseSpeed", "climbPerformance", "maxClimbRate",
     "maxDescentRate", "waypoint", "waypointTimer", "waypointInterval",
     "lightTimer", "vSpeed", "heading", "pitch", "roll", "targetHeading",
     "turbulenceTimer", "turbulenceOffset"}

\* C12: a failed model load never blocks a spawn.  Every settled load, with
\* its model or with the box mesh substituted, has added one plane with the
\* full flight state; the population never exceeds MAX_PLANES and holds
\* exactly MAX_PLANES planes once every load has settled.
C12_LoadFailureSpawns ==
    /\ Len(planes) + pending = MAX_PLANES
    /\ Len(planes) = planesLoaded
    /\ Len(planes) <= MAX_PLANES
    /\ pending = 0 => Len(planes) = MAX_PLANES
    /\ \A i \in Planes : FlightFields \subseteq DOMAIN planes[i]

\* every load has settled, one with its model and one with the box mesh,
\* and the plane with the box mesh has flown a frame
C12_Witness ==
    /\ pending = 0
    /\ Len(planes) = MAX_PLANES
    /\ \E i, j \in Planes :
          /\ planes[i].placeholder
          /\ planes[i].event = "flew"
          /\ ~planes[j].placeholder

\* C13: the frame loop is not gated by the loads.  Frames and load
\* completions interleave in any order; a frame, whatever the number of
\* loads still pending, adds and removes no plane and visits every plane
\* that is in the population when it runs; a load that settles adds exactly
\* its own plane at the end of the population and leaves the others as they
\* are.
C13_LoadsInterleave ==
    [][((ticks' = ticks + 1) =>
               (/\ Len(planes') = Len(planes)
                /\ pending' = pending
                /\ \A i \in Planes : planes'[i].seen = ticks'))
           /\
           ((ticks' = ticks) =>
               (/\ pending' = pending - 1
                /\ Len(planes') = Len(planes) + 1
                /\ SubSeq(planes', 1, Len(planes)) = planes
                /\ planes'[Len(planes')].event = "spawned"))]_vars

\* frames have run with one load settled and one pending (the first plane
\* has flown in the last frame), then the second load has settled
C13_Witness ==
    /\ pending = 0
    /\ ticks > 1
    /\ Len(planes) = MAX_PLANES
    /\ planes[1].event = "flew"
    /\ planes[1].seen = ticks
    /\ planes[Len(planes)].event = "spawned"

\* C14: the wind strength lies within [0.5, 2.0] in the initial state and
\* after any number of frames and wind changes.
C14_WindStrength ==
    /\ windStrength >= FS \div 2
    /\ windStrength <= 2 * FS

\* the wind has just changed for the third time
C14_Witness ==
    /\ ticks = 3 * (WIND_CHANGE_INTERVAL + 1)
    /\ windChangeTimer = 0

\* C15: a wind change shifts the direction by at most pi/4 in absolute
\* value, so no frame reverses the wind.
C15_WindShift ==
    [][/\ Abs(windDirection' - windDirection) <= PI \div 4
       /\ windChangeTimer' # 0 => windDirection' = windDirection]_vars

\* the first wind change has just shifted the direction
C15_Witness ==
    /\ ticks = WIND_CHANGE_INTERVAL + 1
    /\ windChangeTimer = 0
    /\ \E s \in 0..MaxSeed :
          /\ rng = (s + 4) % PoolLen
          /\ windDirection # RandAngle(s, 0)

\* C16: timeOfDay lies in [0, 1) after every frame under any interleaving
\* of frames and night-mode toggles; a frame advances it by DAY_CYCLE_SPEED *
\* dt and wraps it to 0 when it would reach 1, and sets it to 0 when night
\* mode is engaged; a toggle leaves it as it is.
C16_ClockCycle ==
    /\ [](timeOfDay >= 0 /\ timeOfDay < ToDS)
    /\ [][IF ticks' = ticks
           THEN timeOfDay' = timeOfDay
           ELSE timeOfDay' = IF nightModeOnly THEN 0
                             ELSE IF timeOfDay + 1 = ToDS THEN 0
                             ELSE timeOfDay + 1]_vars

\* the clock has wrapped: it is midnight 0.75 day after the start and night
\* mode has not been engaged
C16_Witness ==
    /\ ticks = WrapTick
    /\ timeOfDay = 0
    /\ ~nightModeOnly

\* C17: noon.  After a frame that leaves timeOfDay = 0.5 the sun is visible
\* and the moon is not, the day weight is 1 (full ambient and sun light) and
\* the night weight is 0 (no moon light).
C17_Noon ==
    (ticks > 0 /\ timeOfDay = ToDS \div 2) =>
        /\ sky.sunVisible
        /\ ~sky.moonVisible
        /\ dayPhase(timeOfDay) = TS
        /\ sky.ambient = 1200
        /\ sky.sunLight = 1500
        /\ sky.moonLight = 0

\* C18: after every frame the moon is visible exactly when the sun is not,
\* and the sun is visible exactly when timeOfDay is in (0.15, 0.85) and the
\* sun is above the horizon.
C18_SunMoonComplementary ==
    ticks > 0 =>
        /\ sky.moonVisible <=> ~sky.sunVisible
        /\ sky.sunVisible <=> (/\ timeOfDay > (15 * ToDS) \div 100
                                /\ timeOfDay < (85 * ToDS) \div 100
                                /\ sky.sunY > 0)

\* C19 as claimed: the wrapped heading difference of every frame lies in the
\* half-open interval (-pi, pi] and is congruent to targetHeading - heading
\* modulo 2 pi.
C19_HeadingWrapHalfOpen ==
    \A i \in Planes :
        Has(planes[i], "headingDiff") =>
            /\ planes[i].headingDiff > -PI
            /\ planes[i].headingDiff <= PI
            /\ (planes[i].headingDiff - planes[i].headingRaw) % TWO_PI = 0

\* C19, amended: the wrapped heading difference of every frame lies in the
\* closed interval [-pi, pi] and is congruent to targetHeading - heading
\* modulo 2 pi; the loops end for every pair.
C19_HeadingWrapClosed ==
    \A i \in Planes :
        Has(planes[i], "headingDiff") =>
            /\ planes[i].headingDiff >= -PI
            /\ planes[i].headingDiff <= PI
            /\ (planes[i].headingDiff - planes[i].headingRaw) % TWO_PI = 0

\* a difference of more than three half turns has been wrapped
C19_Witness ==
    \E i \in Planes :
        /\ Has(planes[i], "headingDiff")
        /\ Abs(planes[i].headingRaw) > 3 * PI
        /\ Abs(planes[i].headingDiff) < PI

\* C20 as claimed: in a frame the despawn test of a plane is made before its
\* navigation, altitude, orientation and wind updates, that is on the
\* position the frame started with, and the terrain update and the clock
\* advance come after the planes.
C20_DespawnFirst ==
    [][(ticks' = ticks + 1) =>
          LET At(x) == CHOOSE k \in 1..Len(tickLog'.phases) : tickLog'.phases[k] = x
          IN /\ \A i \in Planes : planes'[i].tested = planes[i].pos
             /\ At("planes") < At("terrain")
             /\ At("planes") < At("clock")]_vars

\* C20, amended: in a frame the clock advance and the terrain update come
\* before the planes, which see the advanced clock; a plane is turned
\* toward the target heading its navigation computed in this frame; the
\* despawn test of a plane is made after its navigation, altitude,
\* orientation and wind updates, on the position they produced, which is not
\* the one the frame started with and is the one a plane that is not
\* respawned keeps.
C20_DespawnLast ==
    [][(ticks' = ticks + 1) =>
          LET At(x) == CHOOSE k \in 1..Len(tickLog'.phases) : tickLog'.phases[k] = x
          IN /\ At("clock") < At("planes")
             /\ At("terrain") < At("planes")
             /\ \A i \in Planes :
                   /\ planes'[i].tested # planes[i].pos
                   /\ planes'[i].event = "flew" =>
                         /\ planes'[i].tested = planes'[i].pos
                         /\ planes'[i].lightMultiplier = lightMultiplier(timeOfDay')
                         /\ planes'[i].headingRaw
                              = planes'[i].targetHeading - planes[i].heading]_vars

\* a frame has tested one plane where its movement took it, outside the box,
\* and respawned it, in daylight
C20_Witness ==
    /\ tickLog.phases = <<"clock", "wind", "camera", "terrain", "planes", "render">>
    /\ timeOfDay > ToDS \div 4
    /\ \E i \in Planes :
          /\ planes[i].event = "respawned"
          /\ planes[i].respawns = 1
          /\ Abs(planes[i].tested.x - viewer.x) > DESPAWN_BOX_SIZE \div 2

C22_VSpeedLimits ==
    \A i \in Planes :
        /\ planes[i].vSpeed >= -planes[i].maxDescentRate
        /\ planes[i].vSpeed <= planes[i].maxClimbRate

\* a plane in the floor danger zone whose seek and avoidance push add up to
\* more than its maxClimbRate climbs at more than nine tenths of it, and a
\* plane in the ceiling danger zone has been held to its maxDescentRate
C22_Witness ==
    \E i \in Planes :
        /\ planes[i].event = "flew"
        /\ Has(planes[i], "placed")
        /\ \/ /\ planes[i].placed = MIN_HEIGHT_AGL + 100 * PS
              /\ AGL(i) < MIN_HEIGHT_AGL + FLOOR_AVOIDANCE_DIST
              /\ DesiredClimb(planes[i], AGL(i)) > planes[i].maxClimbRate
              /\ planes[i].vSpeed > (planes[i].maxClimbRate * 9) \div 10
           \/ /\ planes[i].placed = MAX_HEIGHT_AGL - 100 * PS
              /\ AGL(i) > MAX_HEIGHT_AGL - CEILING_AVOIDANCE_DIST
              /\ DesiredClimb(planes[i], AGL(i)) < -planes[i].maxDescentRate
              /\ planes[i].vSpeed < -((planes[i].maxDescentRate * 9) \div 10)

\* C23: a respawn resets the navigation state.  In the first frame after a
\* respawn the plane's smoothWaypoint is the waypoint the respawn generated,
\* whose horizontal distance from the respawn position lies within
\* [WAYPOINT_DISTANCE_MIN, WAYPOINT_DISTANCE_MAX] (to within TrigSlack), and
\* no blend toward the targetWaypoint of before the respawn is in progress.
C23_RespawnResetsNavigation ==
    [][\A i \in Planes :
         (planes[i].event = "respawned" /\ ticks' = ticks + 1) =>
            LET dx == Div(planes'[i].smoothWaypoint.x - planes[i].pos.x, 1000)
                dz == Div(planes'[i].smoothWaypoint.z - planes[i].pos.z, 1000)
                distance == ISqrt(dx * dx + dz * dz) * 1000
            IN /\ planes'[i].smoothWaypoint = planes[i].waypoint
               /\ distance >= WAYPOINT_DISTANCE_MIN - TrigSlack
               /\ distance <= WAYPOINT_DISTANCE_MAX + TrigSlack
               /\ ~(/\ planes'[i].waypointBlendFactor < BS
                    /\ planes'[i].targetWaypoint = planes[i].targetWaypoint)]_vars

\* C24: chunk identity across updates.  An update creates a mesh only for
\* the keys that were not loaded before it: as many meshes as new keys, each
\* with a new handle; a chunk that is in the square before and after the
\* update keeps its mesh; and the geometry the tiles share is the same
\* object, not disposed of, before and after every update, whatever was
\* unloaded, and it is the geometry of every loaded mesh.
C24_ChunkIdentity ==
    [][(updates' = updates + 1) =>
          /\ \A k \in DOMAIN active \cap DOMAIN active' : active'[k] = active[k]
          /\ meshes' - meshes = Cardinality(DOMAIN active' \ DOMAIN active)
          /\ \A k \in DOMAIN active' \ DOMAIN active : active'[k].id > meshes
          /\ geometry' = geometry
          /\ ~geometry'.disposed
          /\ \A k \in DOMAIN active' : active'[k].geometry = geometry.id]_vars

\* the viewpoint has crossed into the next chunk column and come back: tiles
\* were unloaded twice, the tiles of the two middle columns have the meshes
\* of the first update and the tiles of the column that was unloaded and
\* loaded again have new ones
C24_Witness ==
    /\ updates = 3
    /\ chunkCenter = <<0, 0>>
    /\ meshes = 15
    /\ active[<<0, 0>>].id <= 9
    /\ active[<<1, 0>>].id <= 9
    /\ active[<<-1, 0>>].id > 12
    /\ ~geometry.disposed

\* C25: the wind changes only at interval boundaries, in one step.  A frame
\* changes windDirection or windStrength only if the timer it advanced has
\* exceeded WIND_CHANGE_INTERVAL, and it resets the timer to 0 in the same
\* step; every other frame advances the timer by dt and leaves the wind as
\* it is, and so does every step that is not a frame; the timer counts the
\* frames since the last change, so two changes are more than
\* WIND_CHANGE_INTERVAL apart.
C25_WindChangesAtBoundaries ==
    /\ [](/\ windChangeTimer <= WIND_CHANGE_INTERVAL
          /\ windChangeTimer = ticks % (WIND_CHANGE_INTERVAL + 1))
    /\ [][IF ticks' = ticks + 1 /\ windChangeTimer + 1 > WIND_CHANGE_INTERVAL
          THEN windChangeTimer' = 0
          ELSE /\ windDirection' = windDirection
               /\ windStrength' = windStrength
               /\ windChangeTimer' = IF ticks' = ticks THEN windChangeTimer
                                     ELSE windChangeTimer + 1]_vars

\* five frames after the second change, the wind being another than the
\* initial one
C25_Witness ==
    /\ ticks = 2 * (WIND_CHANGE_INTERVAL + 1) + 5
    /\ windChangeTimer = 5
    /\ \E s \in 0..MaxSeed :
          /\ rng = (s + 6) % PoolLen
          /\ windStrength # RandRange(FS \div 2, (FS * 3) \div 2, s, 1)

\* C27: between two regenerations the anchors of the curve are stable.  A
\* step in which a plane does not regenerate its waypoint (a frame in which
\* the periodic waypoint timer expires or the plane is respawned included)
\* leaves plane.waypoint, waypointControlPoint and targetWaypoint as they
\* are, so that while a blend is in progress smoothWaypoint is the point of
\* the curve of the unchanged anchors for the blend factor.
C27_AnchorsStable ==
    [][\A i \in Planes :
         (/\ planes[i].regens > 0
          /\ planes'[i].regens = planes[i].regens)
         => /\ planes'[i].waypoint = planes[i].waypoint
            /\ planes'[i].targetWaypoint = planes[i].targetWaypoint
            /\ planes'[i].waypointControlPoint = planes[i].waypointControlPoint
            /\ (planes[i].waypointBlendFactor < BS /\ planes'[i].seen = ticks') =>
                  planes'[i].smoothWaypoint =
                      Bezier(planes[i].waypoint, planes[i].waypointControlPoint,
                             planes[i].targetWaypoint, planes'[i].waypointBlendFactor)]_vars

\* C28: the wrap-around of the basic variants puts a plane back in the
\* scene.  After a frame in which a plane was wrapped around, both its x and
\* its z lie within [-300, 300], whatever its heading was, and its height
\* within [MIN_HEIGHT, MAX_HEIGHT].
C28_WrapAround ==
    \A i \in Planes :
        planes[i].event = "wrapped" =>
            /\ OutsideScene(planes[i].moved)
            /\ planes[i].pos.x >= -WrapLimit /\ planes[i].pos.x <= WrapLimit
            /\ planes[i].pos.z >= -WrapLimit /\ planes[i].pos.z <= WrapLimit
            /\ planes[i].pos.y >= MIN_HEIGHT /\ planes[i].pos.y <= MAX_HEIGHT

\* C29: the loading screen.  planesLoaded is incremented exactly once by
\* every load that settles, with the model or with the box mesh, and by
\* nothing else, and never exceeds MAX_PLANES; the hiding of the loading
\* screen is started only when all MAX_PLANES loads have settled; and, the
\* loads settling in any order between the frames, the loading screen is
\* eventually hidden.
C29_LoadingScreen ==
    /\ [](/\ planesLoaded <= MAX_PLANES
          /\ planesLoaded + pending = MAX_PLANES
          /\ loadingScreen # "shown" => (pending = 0 /\ planesLoaded = MAX_PLANES))
    /\ [][/\ planesLoaded' = planesLoaded + (pending - pending')
          /\ pending' \in {pending, pending - 1}
          /\ (loadingScreen = "shown" /\ loadingScreen' # "shown")
                => (pending = 1 /\ pending' = 0 /\ loadingScreen' = "scheduled")]_vars
    /\ <>(loadingScreen = "hidden")

\* the loading screen has been hidden after every load has settled, the
\* first one with the box mesh, and frames have run
C29_Witness ==
    /\ loadingScreen = "hidden"
    /\ planesLoaded = MAX_PLANES
    /\ pending = 0
    /\ ticks > 1
    /\ planes[1].placeholder
    /\ ~planes[Len(planes)].placeholder

\* C30: after every update the viewer stands over loaded terrain.  The mesh
\* of chunk (i, j) covers the square of side CHUNK_SIZE centred at
\* (i * CHUNK_SIZE, j * CHUNK_SIZE); every chunk whose square contains the
\* viewer's (x, z), the squares taken with their boundary, is loaded and its
\* mesh lies there, for negative coordinates and for positions on a
\* boundary too.
C30_ViewerOverTerrain ==
    \A i, j \in ChunkRange :
        (/\ Abs(viewer.x - i * CHUNK_SIZE) <= CHUNK_SIZE \div 2
         /\ Abs(viewer.z - j * CHUNK_SIZE) <= CHUNK_SIZE \div 2)
        => /\ key(i, j) \in DOMAIN active
           /\ active[key(i, j)].x = i * CHUNK_SIZE
           /\ active[key(i, j)].z = j * CHUNK_SIZE

\* the viewer has moved to negative x onto the line where the squares of
\* the chunks -3 and -2 meet, and later updates have been made there
C30_Witness ==
    /\ updates >= 3
    /\ viewer.x = -((5 * CHUNK_SIZE) \div 2)
    /\ viewer.z = CHUNK_SIZE - PS
    /\ chunkCenter = <<-3, 0>>
    /\ {<<-3, 1>>, <<-2, 1>>} \subseteq DOMAIN active

====
